---- MODULE Spec2Model ----
(***************************************************************************)
(* A model of the document ingestion and retrieval pipeline of             *)
(* src/embedding_system.py (class CPREmbeddingSystem and the module-level  *)
(* helpers around it).                                                     *)
(*                                                                         *)
(* Strings are sequences of one-character strings.  The alphabet keeps the *)
(* three classes of character the code distinguishes: "." (the sentence    *)
(* end text.rfind looks for), " " (whitespace, removed by str.strip) and   *)
(* "a" (any other character).  Offsets are Python's, counted from 0.       *)
(***************************************************************************)
EXTENDS Integers, Sequences, FiniteSets, TLC

VARIABLES
    chunk_size,     \* self.chunk_size
    chunk_overlap,  \* self.chunk_overlap
    batch_size,     \* self.batch_size
    text,           \* chunk_text: the argument text
    start,          \* chunk_text: the local start
    chunks,         \* chunk_text: the local chunks
    pc_chunk,       \* chunk_text: "while" (at the loop test) or "return"
    iters,          \* chunk_text: loop iterations run so far
    embedding_system, \* the module global: "None" or "object"
    initialized,    \* self.initialized
    collection,     \* self.collection is not None
    store,          \* the records of the persistent collection "cpr_documents", by id
    corpus,         \* the *.md files of the corpus directory
    md_files,       \* process_cpr_documents: the local md_files
    file_idx,       \* process_cpr_documents: the position of the for loop in md_files
    pc,             \* "idle", "loop" (inside process_cpr_documents) or "returned"
    total_chunks,   \* process_cpr_documents: the local total_chunks
    processed_files, \* process_cpr_documents: the local processed_files
    log,            \* process_cpr_documents: what happened to each file of the run
    last_add,       \* the arguments and outcome of the operation's last collection.add call
    embed_calls,    \* the operation's batch_embed calls on the current file, in order
    runs,           \* completed runs of process_cpr_documents
    ret             \* the operation that returned and what it returned

chunkVars == <<text, start, chunks, pc_chunk, iters>>
configVars == <<chunk_size, chunk_overlap, batch_size>>
systemVars == <<embedding_system, initialized, collection>>
runVars == <<md_files, file_idx, total_chunks, processed_files, log>>

vars == <<chunk_size, chunk_overlap, batch_size, text, start, chunks, pc_chunk, iters,
          embedding_system, initialized, collection, store, corpus, md_files, file_idx,
          pc, total_chunks, processed_files, log, last_add, embed_calls, runs, ret>>

(***************************************************************************)
(* Bounds of the model.                                                    *)
(***************************************************************************)
MaxTextLen == 8
MaxChunkSize == 7
MaxOverlap == 2
MaxIter == 9
MaxRuns == 2
MaxBudget == 6
MaxTopK == 3
MaxBatchTexts == 2

(***************************************************************************)
(* Program constants.                                                      *)
(***************************************************************************)
DefaultChunkSize == 1000
DefaultChunkOverlap == 200
DefaultBatchSize == 20
DefaultTopK == 5
ContextTopK == 3
DefaultMaxChars == 3000

Chars == {"a", ".", " "}

\* the chunk sizes tried: the smallest, two small ones, and one large enough for
\* a sentence boundary to shorten a chunk
ChunkSizes == {1, 2, 4, MaxChunkSize}

Texts(n) == UNION {[1..k -> Chars] : k \in 0..n}

MaxOf(S) == CHOOSE x \in S : \A y \in S : x >= y

(***************************************************************************)
(* Python's handling of slice bounds: a negative bound counts from the     *)
(* end, and the result is clamped to 0..len.                               *)
(***************************************************************************)
PyIndex(i, n) == IF i < 0 THEN (IF i + n < 0 THEN 0 ELSE i + n)
                 ELSE (IF i > n THEN n ELSE i)

\* t[i:j]
PySlice(t, i, j) ==
    LET a == PyIndex(i, Len(t))
        b == PyIndex(j, Len(t))
    IN  IF a >= b THEN << >> ELSE SubSeq(t, a + 1, b)

\* t.rfind('.', i, j): the highest offset p, i <= p < j, holding a '.'; -1 if none
RFindDot(t, i, j) ==
    LET a == PyIndex(i, Len(t))
        b == PyIndex(j, Len(t))
        hits == {p \in a..(b - 1) : t[p + 1] = "."}
    IN  IF hits = {} THEN -1 ELSE MaxOf(hits)

\* t.strip(): from the first character that is not a blank to the last one
Strip(t) ==
    IF \A p \in 1..Len(t) : t[p] = " " THEN << >>
    ELSE LET first == CHOOSE p \in 1..Len(t) :
                          t[p] # " " /\ \A q \in 1..(p - 1) : t[q] = " "
             last == CHOOSE p \in 1..Len(t) :
                         t[p] # " " /\ \A q \in (p + 1)..Len(t) : t[q] = " "
         IN  SubSeq(t, first, last)

(***************************************************************************)
(* chunk_text, lines 79-86: the end of the window that starts at st.  The  *)
(* test  sentence_end > start + chunk_size * 0.7  is stated in integers;   *)
(* the two agree for every chunk_size the model uses and for 1000.         *)
(***************************************************************************)
\* line 85 taking any full stop after the start of the window for a boundary
AnyBoundary(sentence_end, st, cs) == sentence_end > st

GoodBoundary(sentence_end, st, cs) == 10 * (sentence_end - st) > 7 * cs

WindowEnd(t, cs, st) ==
    LET end0 == st + cs
    IN  IF end0 < Len(t)
        THEN LET sentence_end == RFindDot(t, st, end0)
             IN  IF GoodBoundary(sentence_end, st, cs) THEN sentence_end + 1 ELSE end0
        ELSE end0

\* chunk_text, lines 88-95: the chunk of the window, appended when not empty
AppendChunk(cks, t, fname, st, en) ==
    LET chunk_text == Strip(PySlice(t, st, en))
    IN  IF chunk_text # << >>
        THEN Append(cks, [text |-> chunk_text, filename |-> fname, start |-> st, end |-> en])
        ELSE cks

\* line 97 without the overlap: the next window starts where this one ends
NextStartNoOverlap(en, ov) == en

\* line 97 with the overlap added: the next window starts past the end of this one
NextStartGap(en, ov) == en + ov

\* chunk_text, line 97
NextStart(en, ov) == en - ov

\* chunk_text, lines 79-97: one run of the loop body
ChunkBody(t, fname, cs, ov, st, cks) ==
    LET en == WindowEnd(t, cs, st)
    IN  [start |-> NextStart(en, ov), chunks |-> AppendChunk(cks, t, fname, st, en)]

\* chunk_text, lines 75-101, as the function the pipeline calls
RECURSIVE ChunkLoop(_, _, _, _, _, _)
ChunkLoop(t, fname, cs, ov, st, cks) ==
    IF ~(st < Len(t)) THEN cks
    ELSE LET r == ChunkBody(t, fname, cs, ov, st, cks)
         IN  IF r.start >= Len(t) THEN r.chunks
             ELSE ChunkLoop(t, fname, cs, ov, r.start, r.chunks)

ChunkText(t, fname, cs, ov) == ChunkLoop(t, fname, cs, ov, 0, << >>)

DocName == <<"d", ".", "m", "d">>

(***************************************************************************)
(* The embedding provider.  A call on n items either raises or answers     *)
(* with one embedding per item, in order (section 6 of the spec); the      *)
(* values of an embedding may be missing, which the code reads as empty.   *)
(* Vectors are unit vectors of dimension 1 in place of 3072.               *)
(***************************************************************************)
Vectors == {<<1>>, <<-1>>}
NoVector == << >>
EmbeddingValues == Vectors \cup {NoVector}

ProviderOutcomes(n) ==
    {[raised |-> TRUE, embeddings |-> << >>]}
        \cup {[raised |-> FALSE, embeddings |-> e] : e \in [1..n -> EmbeddingValues]}

\* get_embedding, lines 103-120
GetEmbedding(outcome) ==
    IF outcome.raised \/ outcome.embeddings = << >> THEN NoVector
    ELSE outcome.embeddings[1]

\* batch_embed answering a failed provider call with one empty vector per text
BatchEmbedPadded(texts, outcome) ==
    IF texts = << >> THEN << >>
    ELSE IF outcome.raised THEN [k \in 1..Len(texts) |-> NoVector]
    ELSE [k \in 1..Len(outcome.embeddings) |-> outcome.embeddings[k]]

\* batch_embed, lines 122-160: outcome is what client.models.embed_content does
BatchEmbed(texts, outcome) ==
    IF texts = << >> THEN << >>
    ELSE IF outcome.raised THEN << >>
    ELSE [k \in 1..Len(outcome.embeddings) |-> outcome.embeddings[k]]

(***************************************************************************)
(* The vector store: chromadb's collection "cpr_documents".                *)
(***************************************************************************)
StoreIds(st) == DOMAIN st

\* the records of one collection.add call, by id
AddedRecords(recs) ==
    [id \in {recs.ids[k] : k \in 1..Len(recs.ids)} |->
        LET k == CHOOSE k \in 1..Len(recs.ids) : recs.ids[k] = id
        IN  [embedding |-> recs.embeddings[k], document |-> recs.documents[k],
             metadata |-> recs.metadatas[k]]]

\* collection.add, lines 228-233.  The write may fail (io = "fails").  add is not
\* upsert: an id the collection already holds is never overwritten; depending on
\* the chromadb release the call raises on it (dup = "raise") or leaves the
\* existing record as it is and adds the new ids only (dup = "ignore").
CollectionAdd(st, recs, io, dup) ==
    LET new == AddedRecords(recs)
        clash == (DOMAIN new) \cap (DOMAIN st)
    IN  IF io = "fails" THEN [store |-> st, raised |-> TRUE, existing |-> clash]
        ELSE IF clash # {} /\ dup = "raise"
        THEN [store |-> st, raised |-> TRUE, existing |-> clash]
        ELSE [store |-> [id \in (DOMAIN st) \cup (DOMAIN new) |->
                            IF id \in DOMAIN st THEN st[id] ELSE new[id]],
              raised |-> FALSE, existing |-> clash]

\* the squared L2 distance, the default space of a chromadb collection
Distance(u, v) ==
    LET d(k) == (u[k] - v[k]) * (u[k] - v[k])
    IN  IF Len(u) = 0 THEN 0 ELSE d(1)

\* the hits a query may return for the ids S: the n nearest, nearest first, ties
\* in any order
RECURSIVE Nearest(_, _, _, _)
Nearest(st, qe, S, n) ==
    IF n = 0 \/ S = {} THEN {<< >>}
    ELSE LET best == {x \in S : \A y \in S :
                        Distance(qe, st[x].embedding) <= Distance(qe, st[y].embedding)}
         IN  UNION {{<<x>> \o r : r \in Nearest(st, qe, S \ {x}, n - 1)} : x \in best}

\* collection.query, lines 257-261: documents, metadatas and distances of the hits
StoreQuery(st, qe, n_results) ==
    {[k \in 1..Len(h) |-> [document |-> st[h[k]].document,
                           metadata |-> st[h[k]].metadata,
                           distance |-> Distance(qe, st[h[k]].embedding)]]
        : h \in Nearest(st, qe, DOMAIN st, n_results)}

(***************************************************************************)
(* process_cpr_documents: the work on one file.                            *)
(***************************************************************************)
\* md_file.stem: the name up to its last dot
Stem(name) ==
    LET dots == {p \in 2..Len(name) : name[p] = "."}
    IN  IF dots = {} THEN name ELSE SubSeq(name, 1, MaxOf(dots) - 1)

DigitChar == <<"0", "1", "2", "3", "4", "5", "6", "7", "8", "9">>

\* str(k) for k >= 0
RECURSIVE Decimal(_)
Decimal(k) ==
    IF k < 10 THEN <<DigitChar[k + 1]>>
    ELSE Decimal(k \div 10) \o <<DigitChar[(k % 10) + 1]>>

\* the index counted inside the batch only
ChunkIndexInBatch(i, j) == j

\* line 218, line 220: the index of the j-th chunk of the batch that starts at i
ChunkIndex(i, j) == i + j

\* line 220
ChunkId(stem, k) == stem \o <<"_">> \o Decimal(k)

\* line 211 without its test
KeepAnyEmbedding(embedding) == TRUE

\* line 211
KeepEmbedding(embedding) == embedding # << >>

NoRecords == [embeddings |-> << >>, documents |-> << >>, metadatas |-> << >>, ids |-> << >>]

\* lines 212-220: one (chunk, embedding) pair appended to the four lists
AppendRecord(acc, stem, chunk, embedding, k) ==
    [embeddings |-> Append(acc.embeddings, embedding),
     documents |-> Append(acc.documents, chunk.text),
     metadatas |-> Append(acc.metadatas,
                     [filename |-> chunk.filename, start |-> chunk.start,
                      end |-> chunk.end, chunk_index |-> k]),
     ids |-> Append(acc.ids, ChunkId(stem, k))]

\* lines 210-220: the pairs of zip(batch_chunks, batch_embeddings) from position j
RECURSIVE ZipLoop(_, _, _, _, _, _)
ZipLoop(acc, stem, batch_chunks, batch_embeddings, i, j) ==
    IF j >= Len(batch_chunks) \/ j >= Len(batch_embeddings) THEN acc
    ELSE ZipLoop(IF KeepEmbedding(batch_embeddings[j + 1])
                 THEN AppendRecord(acc, stem, batch_chunks[j + 1],
                                   batch_embeddings[j + 1], ChunkIndex(i, j))
                 ELSE acc,
                 stem, batch_chunks, batch_embeddings, i, j + 1)

\* line 202: chunks[i:i + batch_size]
BatchChunks(cks, i, bs) == PySlice(cks, i, i + bs)

\* line 201: the number of batches of range(0, len(chunks), batch_size)
NumBatches(cks, bs) == (Len(cks) + bs - 1) \div bs

\* what the provider may do on each batch of the chunks
DocOutcomes(cks, bs) ==
    {o \in [1..NumBatches(cks, bs) ->
              UNION {ProviderOutcomes(n) : n \in 1..bs}] :
        \A b \in 1..NumBatches(cks, bs) :
            o[b].raised \/ Len(o[b].embeddings) = Len(BatchChunks(cks, (b - 1) * bs, bs))}

\* every batch_embed call of the file succeeds, with one non-empty vector per text
HealthyOutcomes(cks, bs) ==
    LET size(b) == Len(BatchChunks(cks, (b - 1) * bs, bs))
        answers(n) == {[raised |-> FALSE, embeddings |-> e] : e \in [1..n -> Vectors]}
    IN  {o \in [1..NumBatches(cks, bs) ->
                  UNION {answers(size(b)) : b \in 1..NumBatches(cks, bs)}] :
            \A b \in 1..NumBatches(cks, bs) : Len(o[b].embeddings) = size(b)}

\* lines 201-220: the batches from the one that starts at i
RECURSIVE BatchLoop(_, _, _, _, _, _)
BatchLoop(acc, stem, cks, bs, outcomes, i) ==
    IF i >= Len(cks) THEN acc
    ELSE LET batch_chunks == BatchChunks(cks, i, bs)
             batch_texts == [k \in 1..Len(batch_chunks) |-> batch_chunks[k].text]
             batch_embeddings == BatchEmbed(batch_texts, outcomes[(i \div bs) + 1])
         IN  BatchLoop(ZipLoop(acc, stem, batch_chunks, batch_embeddings, i, 0),
                       stem, cks, bs, outcomes, i + bs)

\* the batch_embed calls of lines 201-207, in order
EmbedCalls(cks, bs, outcomes) ==
    [b \in 1..NumBatches(cks, bs) |->
        LET batch_chunks == BatchChunks(cks, (b - 1) * bs, bs)
            batch_texts == [k \in 1..Len(batch_chunks) |-> batch_chunks[k].text]
        IN  [texts |-> batch_texts, raised |-> outcomes[b].raised,
             response |-> outcomes[b].embeddings,
             result |-> BatchEmbed(batch_texts, outcomes[b])]]

\* the loop body without its try: the exception leaves process_cpr_documents
AfterExceptionAbort(idx) == [pc |-> "returned", file_idx |-> idx, raised |-> TRUE]

\* lines 238-239: an exception inside the loop body is printed and the loop goes on
AfterException(idx) == [pc |-> "loop", file_idx |-> idx + 1, raised |-> FALSE]

(***************************************************************************)
(* Retrieval.                                                              *)
(***************************************************************************)
\* lines 271-276: one hit of the store as a search result
FormatResult(hit) ==
    [text |-> hit.document, filename |-> hit.metadata.filename,
     relevance_score |-> 1 - hit.distance, metadata |-> hit.metadata]

\* search_documents, lines 243-282.  q is what the provider does on the query,
\* query_raises whether collection.query raises, hits what it returns otherwise.
\* search_documents without the try of line 250: an exception of the query leaves it
SearchDocumentsUncaught(q, query_raises, hits) ==
    IF ~initialized \/ ~collection THEN [results |-> << >>, raised |-> FALSE]
    ELSE IF GetEmbedding(q) = NoVector THEN [results |-> << >>, raised |-> FALSE]
    ELSE IF query_raises THEN [results |-> << >>, raised |-> TRUE]
    ELSE [results |-> [k \in 1..Len(hits) |-> FormatResult(hits[k])], raised |-> FALSE]

\* The result is the list returned and whether the call raised: the except of
\* lines 280-282 turns an exception of the query into an empty list.
SearchDocuments(q, query_raises, hits) ==
    IF ~initialized \/ ~collection THEN [results |-> << >>, raised |-> FALSE]
    ELSE IF GetEmbedding(q) = NoVector THEN [results |-> << >>, raised |-> FALSE]
    ELSE IF query_raises THEN [results |-> << >>, raised |-> FALSE]
    ELSE [results |-> [k \in 1..Len(hits) |-> FormatResult(hits[k])], raised |-> FALSE]

\* the hits collection.query may return to search_documents
QueryHits(q, top_k) ==
    IF GetEmbedding(q) = NoVector THEN {<< >>}
    ELSE StoreQuery(store, GetEmbedding(q), top_k)

\* line 301: f"From {result['filename']}:\n{result['text']}\n"
ContextPart(result) ==
    <<"F", "r", "o", "m", " ">> \o result.filename \o <<":", "\n">>
        \o result.text \o <<"\n">>

\* line 304: "\n".join(parts)
RECURSIVE JoinLines(_)
JoinLines(parts) ==
    IF parts = << >> THEN << >>
    ELSE IF Len(parts) = 1 THEN parts[1]
    ELSE parts[1] \o <<"\n">> \o JoinLines(Tail(parts))

\* line 298
Overflows(current_length, result, max_chars) ==
    current_length + Len(result.text) > max_chars

\* the loop of lines 297-302 with continue in place of break
RECURSIVE PackLoopSkip(_, _, _, _, _)
PackLoopSkip(results, k, max_chars, context_parts, current_length) ==
    IF k > Len(results) THEN context_parts
    ELSE IF Overflows(current_length, results[k], max_chars)
    THEN PackLoopSkip(results, k + 1, max_chars, context_parts, current_length)
    ELSE PackLoopSkip(results, k + 1, max_chars,
                      Append(context_parts, ContextPart(results[k])),
                      current_length + Len(results[k].text))

\* lines 297-302: the results from position k on
RECURSIVE PackLoop(_, _, _, _, _)
PackLoop(results, k, max_chars, context_parts, current_length) ==
    IF k > Len(results) THEN context_parts
    ELSE IF Overflows(current_length, results[k], max_chars) THEN context_parts
    ELSE PackLoop(results, k + 1, max_chars,
                  Append(context_parts, ContextPart(results[k])),
                  current_length + Len(results[k].text))

\* get_document_context, lines 284-304, on the results of its search
GetDocumentContext(results, max_chars) ==
    IF results = << >> THEN << >>
    ELSE JoinLines(PackLoop(results, 1, max_chars, << >>, 0))

\* what an operation leaves behind for its caller
Ret(op, raised, results, context, max_chars, top_k, q, query_raises) ==
    [op |-> op, raised |-> raised, results |-> results, context |-> context,
     max_chars |-> max_chars, top_k |-> top_k,
     query_embedding |-> GetEmbedding(q), query_raised |-> query_raises]

NoQuery == [raised |-> TRUE, embeddings |-> << >>]

PlainRet(op, raised) == Ret(op, raised, << >>, << >>, 0, 0, NoQuery, FALSE)

NoAdd == [called |-> FALSE, raised |-> FALSE, io |-> "ok", existing |-> {},
          embeddings |-> << >>, documents |-> << >>, metadatas |-> << >>, ids |-> << >>]

restVars == <<embedding_system, initialized, collection, store, corpus, md_files, file_idx,
              pc, total_chunks, processed_files, log, last_add, embed_calls, runs, ret>>

\* the system before initialize_embedding_system is called, with nothing running
IdleSystem ==
    /\ embedding_system = "None"
    /\ initialized = FALSE
    /\ collection = FALSE
    /\ store = << >>
    /\ md_files = << >>
    /\ file_idx = 1
    /\ pc = "idle"
    /\ total_chunks = 0
    /\ processed_files = 0
    /\ log = << >>
    /\ last_add = NoAdd
    /\ embed_calls = << >>
    /\ runs = 0
    /\ ret = PlainRet("none", FALSE)

(***************************************************************************)
(* chunk_text run one loop iteration at a time.                            *)
(***************************************************************************)
InitChunk ==
    /\ chunk_size \in ChunkSizes
    /\ chunk_overlap \in 0..MaxOverlap
    /\ batch_size = DefaultBatchSize
    /\ text \in Texts(MaxTextLen)
    /\ start = 0
    /\ chunks = << >>
    /\ pc_chunk = "while"
    /\ iters = 0
    /\ corpus = << >>
    /\ IdleSystem

\* lines 78-99: the loop test holds, the body runs, and the break is taken or not
ChunkIterate ==
    /\ pc_chunk = "while"
    /\ start < Len(text)
    /\ iters < MaxIter
    /\ LET r == ChunkBody(text, DocName, chunk_size, chunk_overlap, start, chunks)
       IN  /\ start' = r.start
           /\ chunks' = r.chunks
           /\ pc_chunk' = IF r.start >= Len(text) THEN "return" ELSE "while"
    /\ iters' = iters + 1
    /\ UNCHANGED <<chunk_size, chunk_overlap, batch_size, text>>
    /\ UNCHANGED restVars

\* line 78: the loop test fails
ChunkExit ==
    /\ pc_chunk = "while"
    /\ ~(start < Len(text))
    /\ pc_chunk' = "return"
    /\ UNCHANGED <<chunk_size, chunk_overlap, batch_size, text, start, chunks, iters>>
    /\ UNCHANGED restVars

NextChunk == ChunkIterate \/ ChunkExit

SpecChunk == InitChunk /\ [][NextChunk]_vars

(***************************************************************************)
(* The pipeline and the retriever.  The configuration of __init__ (lines   *)
(* 31-33) is scaled down so that a few characters make several chunks and  *)
(* several batches.                                                        *)
(***************************************************************************)
Configs == {[chunk_size |-> 4, chunk_overlap |-> 1, batch_size |-> 2]}

FileA == [name |-> <<"a", ".", "m", "d">>, readable |-> TRUE,
          content |-> <<"a", "a", "a", "a", "a", "a", "a">>]
FileB == [name |-> <<"b", ".", "m", "d">>, readable |-> TRUE, content |-> <<" ", " ">>]
FileC == [name |-> <<"c", ".", "m", "d">>, readable |-> TRUE, content |-> <<"a", ".">>]
FileU == [name |-> <<"u", ".", "m", "d">>, readable |-> FALSE, content |-> << >>]

Files == {FileA, FileB, FileC, FileU}

\* the corpus directories tried: one file of several batches, a file that fails
\* or is skipped before a good one, and two good files
Corpora == {<<FileA>>, <<FileU, FileC>>, <<FileB, FileC>>, <<FileC, FileU>>, <<FileA, FileC>>}

Init ==
    /\ \E c \in Configs :
        /\ chunk_size = c.chunk_size
        /\ chunk_overlap = c.chunk_overlap
        /\ batch_size = c.batch_size
    /\ text = << >>
    /\ start = 0
    /\ chunks = << >>
    /\ pc_chunk = "return"
    /\ iters = 0
    /\ corpus \in Corpora
    /\ IdleSystem

\* initialize_embedding_system, lines 321-338, with __init__ and initialize
InitializeEmbeddingSystem ==
    /\ pc = "idle"
    /\ \E env_set \in BOOLEAN, ok \in BOOLEAN :
        IF ~env_set
        THEN UNCHANGED systemVars
        ELSE /\ embedding_system' = "object"
             /\ initialized' = ok
             /\ collection' = ok
    /\ pc' = "returned"
    /\ ret' = PlainRet("initialize_embedding_system", FALSE)
    /\ UNCHANGED <<configVars, chunkVars, store, corpus, runVars, last_add, embed_calls, runs>>

\* process_cpr_documents, lines 162-178: up to the loop
ProcessStart ==
    /\ pc = "idle"
    /\ embedding_system = "object"
    /\ runs < MaxRuns
    /\ \E dir_exists \in BOOLEAN :
        IF ~initialized \/ ~dir_exists
        THEN /\ md_files' = << >>
             /\ pc' = "returned"
             /\ ret' = PlainRet("process_cpr_documents", FALSE)
        ELSE /\ md_files' = corpus
             /\ pc' = "loop"
             /\ ret' = PlainRet("none", FALSE)
    /\ file_idx' = 1
    /\ total_chunks' = 0
    /\ processed_files' = 0
    /\ log' = << >>
    /\ UNCHANGED <<configVars, chunkVars, systemVars, store, corpus, last_add, embed_calls, runs>>

LogEntry(f, read_ok, embedded, add, ids) ==
    [name |-> f.name, read_ok |-> read_ok, embedded |-> embedded, add |-> add, ids |-> ids]

\* the loop body caught an exception: lines 238-239
DocumentFails(entry) ==
    LET h == AfterException(file_idx)
    IN  /\ log' = Append(log, entry)
        /\ pc' = h.pc
        /\ file_idx' = h.file_idx
        /\ ret' = IF h.raised THEN PlainRet("process_cpr_documents", TRUE) ELSE ret
        /\ runs' = IF h.raised THEN runs + 1 ELSE runs
        /\ UNCHANGED <<md_files, total_chunks, processed_files>>

\* the loop body ended without an exception and without a store call
DocumentSkipped(entry) ==
    /\ log' = Append(log, entry)
    /\ file_idx' = file_idx + 1
    /\ UNCHANGED <<md_files, pc, total_chunks, processed_files, ret, runs, store, last_add>>

\* process_cpr_documents, lines 180-239: the loop body on the next file, with a
\* provider that may fail in any way or, if healthy, one whose calls all succeed
IngestDocument(healthy) ==
    /\ pc = "loop"
    /\ file_idx <= Len(md_files)
    /\ \E f \in {md_files[file_idx]} :
         \E cks \in {ChunkText(f.content, f.name, chunk_size, chunk_overlap)} :
           \/ /\ ~f.readable                            \* line 185 raises
              /\ embed_calls' = << >>
              /\ DocumentFails(LogEntry(f, FALSE, 0, "none", << >>))
              /\ UNCHANGED <<store, last_add>>
           \/ /\ f.readable
              /\ Strip(f.content) = << >>                \* lines 189-190
              /\ embed_calls' = << >>
              /\ DocumentSkipped(LogEntry(f, TRUE, 0, "none", << >>))
           \/ /\ f.readable
              /\ Strip(f.content) # << >>
              /\ \E outcomes \in IF healthy THEN HealthyOutcomes(cks, batch_size)
                               ELSE DocOutcomes(cks, batch_size) :
                  \E recs \in {BatchLoop(NoRecords, Stem(f.name), cks, batch_size, outcomes, 0)} :
                  LET n == Len(recs.embeddings)
                  IN  /\ embed_calls' = EmbedCalls(cks, batch_size, outcomes)
                      /\ \/ /\ recs.embeddings = << >>   \* line 227: nothing to add
                            /\ DocumentSkipped(LogEntry(f, TRUE, 0, "none", << >>))
                         \/ /\ recs.embeddings # << >>
                            /\ \E io \in {"ok", "fails"}, dup \in {"ignore", "raise"} :
                                LET r == CollectionAdd(store, recs, io, dup)
                                IN  /\ store' = r.store
                                    /\ last_add' = [called |-> TRUE, raised |-> r.raised,
                                                    io |-> io, existing |-> r.existing,
                                                    embeddings |-> recs.embeddings,
                                                    documents |-> recs.documents,
                                                    metadatas |-> recs.metadatas,
                                                    ids |-> recs.ids]
                                    /\ IF r.raised
                                       THEN DocumentFails(LogEntry(f, TRUE, n, "raised", recs.ids))
                                       ELSE /\ log' = Append(log, LogEntry(f, TRUE, n, "ok", recs.ids))
                                            /\ total_chunks' = total_chunks + n
                                            /\ processed_files' = processed_files + 1
                                            /\ file_idx' = file_idx + 1
                                            /\ UNCHANGED <<md_files, pc, ret, runs>>
    /\ UNCHANGED <<configVars, chunkVars, systemVars, corpus>>

\* the loop body with a provider that may fail in any way
ProcessDocument == IngestDocument(FALSE)

\* process_cpr_documents, line 241: the loop is over
ProcessFinish ==
    /\ pc = "loop"
    /\ file_idx > Len(md_files)
    /\ pc' = "returned"
    /\ runs' = runs + 1
    /\ ret' = PlainRet("process_cpr_documents", FALSE)
    /\ UNCHANGED <<configVars, chunkVars, systemVars, store, corpus, md_files, file_idx,
                   total_chunks, processed_files, log, last_add, embed_calls>>

\* the lists of texts batch_embed is called on directly
TextLists == {[k \in 1..n |-> <<"a">>] : n \in 0..MaxBatchTexts}

\* batch_embed called on its own.  Without a client (the system not initialized)
\* the provider call can only raise.
BatchEmbedCall ==
    /\ pc = "idle"
    /\ embedding_system = "object"
    /\ \E texts \in TextLists :
        \E outcome \in IF texts = << >> THEN {NoQuery} ELSE ProviderOutcomes(Len(texts)) :
            /\ initialized \/ outcome.raised
            /\ embed_calls' = <<[texts |-> texts,
                                 raised |-> (texts # << >> /\ outcome.raised),
                                 response |-> outcome.embeddings,
                                 result |-> BatchEmbed(texts, outcome)]>>
    /\ pc' = "returned"
    /\ ret' = PlainRet("batch_embed", FALSE)
    /\ UNCHANGED <<configVars, chunkVars, systemVars, store, corpus, runVars, last_add, runs>>

\* search_documents called on its own
SearchDocumentsCall ==
    /\ pc = "idle"
    /\ embedding_system = "object"
    /\ \E top_k \in (1..MaxTopK) \cup {DefaultTopK}, q \in ProviderOutcomes(1),
          query_raises \in BOOLEAN :
        \E hits \in QueryHits(q, top_k) :
            LET found == SearchDocuments(q, query_raises, hits)
            IN  ret' = Ret("search_documents", found.raised, found.results,
                           << >>, 0, top_k, q, query_raises)
    /\ pc' = "returned"
    /\ UNCHANGED <<configVars, chunkVars, systemVars, store, corpus, runVars, last_add,
                   embed_calls, runs>>

\* get_document_context called on its own: the search of line 288, then the packing
GetDocumentContextCall ==
    /\ pc = "idle"
    /\ embedding_system = "object"
    /\ \E max_chars \in 0..MaxBudget, q \in ProviderOutcomes(1), query_raises \in BOOLEAN :
        \E hits \in QueryHits(q, ContextTopK) :
            LET found == SearchDocuments(q, query_raises, hits)
            IN  ret' = Ret("get_document_context", found.raised, found.results,
                           IF found.raised THEN << >>
                           ELSE GetDocumentContext(found.results, max_chars),
                           max_chars, ContextTopK, q, query_raises)
    /\ pc' = "returned"
    /\ UNCHANGED <<configVars, chunkVars, systemVars, store, corpus, runVars, last_add,
                   embed_calls, runs>>

\* get_relevant_context, lines 340-347
GetRelevantContextCall ==
    /\ pc = "idle"
    /\ \/ /\ embedding_system = "None" \/ ~initialized
          /\ ret' = Ret("get_relevant_context", FALSE, << >>, << >>, DefaultMaxChars,
                        0, NoQuery, FALSE)
       \/ /\ ~(embedding_system = "None" \/ ~initialized)
          /\ \E q \in ProviderOutcomes(1), query_raises \in BOOLEAN :
              \E hits \in QueryHits(q, ContextTopK) :
                  LET found == SearchDocuments(q, query_raises, hits)
                  IN  ret' = Ret("get_relevant_context", found.raised, found.results,
                                 IF found.raised THEN << >>
                                 ELSE GetDocumentContext(found.results, DefaultMaxChars),
                                 DefaultMaxChars, ContextTopK, q, query_raises)
    /\ pc' = "returned"
    /\ UNCHANGED <<configVars, chunkVars, systemVars, store, corpus, runVars, last_add,
                   embed_calls, runs>>

\* the caller has the result: the locals of the call are gone, and so is the
\* record of what the call did
Return ==
    /\ pc = "returned"
    /\ pc' = "idle"
    /\ md_files' = << >>
    /\ file_idx' = 1
    /\ total_chunks' = 0
    /\ processed_files' = 0
    /\ log' = << >>
    /\ last_add' = NoAdd
    /\ embed_calls' = << >>
    /\ ret' = PlainRet("none", FALSE)
    /\ UNCHANGED <<configVars, chunkVars, systemVars, store, corpus, runs>>

Next ==
    \/ InitializeEmbeddingSystem
    \/ ProcessStart
    \/ ProcessDocument
    \/ ProcessFinish
    \/ BatchEmbedCall
    \/ SearchDocumentsCall
    \/ GetDocumentContextCall
    \/ GetRelevantContextCall
    \/ Return

Spec == Init /\ [][Next]_vars

(***************************************************************************)
(* Ingestion at the configuration of __init__ (1000, 200, 20): a corpus of *)
(* the one file rule.md, 2500 characters long, and a provider whose calls  *)
(* all succeed with a non-empty vector for every item.                     *)
(***************************************************************************)
\* a text of 2500 characters: "a" everywhere but for a "." at offset dot (none if
\* dot < 0) and for its last spaces characters, which are blanks
RuleText(dot, spaces) ==
    [k \in 1..2500 |-> IF k - 1 = dot THEN "."
                       ELSE IF k > 2500 - spaces THEN " " ELSE "a"]

\* no full stop; one that ends the first or the second window early; one too
\* early in its window to be a boundary; and these with a blank tail
RuleTexts == {RuleText(dot, spaces) : dot \in {-1, 500, 899, 1650}, spaces \in {0, 50, 100}}

RuleFile(t) == [name |-> <<"r", "u", "l", "e", ".", "m", "d">>, readable |-> TRUE,
                content |-> t]

InitRule ==
    /\ chunk_size = DefaultChunkSize
    /\ chunk_overlap = DefaultChunkOverlap
    /\ batch_size = DefaultBatchSize
    /\ text = << >>
    /\ start = 0
    /\ chunks = << >>
    /\ pc_chunk = "return"
    /\ iters = 0
    /\ corpus \in {<<RuleFile(t)>> : t \in RuleTexts}
    /\ IdleSystem

\* the loop body with a provider whose calls all succeed
ProcessDocumentHealthy == IngestDocument(TRUE)

NextRule ==
    \/ InitializeEmbeddingSystem
    \/ ProcessStart
    \/ ProcessDocumentHealthy
    \/ ProcessFinish
    \/ Return

SpecRule == InitRule /\ [][NextRule]_vars

(***************************************************************************)
(* Claims about the pipeline and the retriever, checked under Spec.        *)
(***************************************************************************)
Returned(op) == pc = "returned" /\ ret.op = op

ContextOps == {"get_document_context", "get_relevant_context"}
RetrievalOps == {"search_documents"} \cup ContextOps

\* C1: the string get_document_context returns is never longer than max_chars
C1_ContextWithinBudget ==
    Returned("get_document_context") => Len(ret.context) <= ret.max_chars

\* C4: batch_embed returns exactly len(texts) vectors, whether the provider call
\* succeeds or fails
C4_BatchEmbedSameLength ==
    \A k \in 1..Len(embed_calls) :
        Len(embed_calls[k].result) = Len(embed_calls[k].texts)

\* C4 as amended: batch_embed([]) returns []; on non-empty texts a provider call
\* that raises gives [], and one that succeeds gives the provider's vectors in
\* order, one per text
C4_BatchEmbedEmptyOnFailure ==
    \A k \in 1..Len(embed_calls) :
        LET c == embed_calls[k]
        IN  /\ c.texts = << >> => c.result = << >>
            /\ (c.texts # << >> /\ c.raised) => c.result = << >>
            /\ (c.texts # << >> /\ ~c.raised) =>
                   (c.result = c.response /\ Len(c.result) = Len(c.texts))

\* one file whose first batch of two texts failed and whose second batch succeeded
C4_Witness ==
    /\ Len(embed_calls) = 2
    /\ embed_calls[1].raised /\ Len(embed_calls[1].texts) = 2
    /\ embed_calls[1].result = << >>
    /\ ~embed_calls[2].raised /\ Len(embed_calls[2].result) = 1

\* the records handed to the last collection.add call are what the store holds
HandedRecordsStored ==
    \A k \in 1..Len(last_add.ids) :
        /\ last_add.ids[k] \in DOMAIN store
        /\ store[last_add.ids[k]] = [embedding |-> last_add.embeddings[k],
                                     document |-> last_add.documents[k],
                                     metadata |-> last_add.metadatas[k]]

\* C5: on a second run over the same corpus every id collides with an existing
\* one and the record is overwritten (last write wins), never rejected
C5_ReingestOverwrites ==
    (/\ last_add.called
     /\ last_add.io = "ok"
     /\ runs >= 1
     /\ last_add.existing = {last_add.ids[k] : k \in 1..Len(last_add.ids)})
        => (~last_add.raised /\ HandedRecordsStored)

\* C6: a failure confined to one file never aborts the run: every file is gone
\* through, every file read, embedded and written has its records in the store
\* at the end, and process_cpr_documents returns without raising
C6_FailuresAreContained ==
    /\ (pc = "loop" \/ Returned("process_cpr_documents")) => ~ret.raised
    /\ Returned("process_cpr_documents") =>
        /\ Len(log) = Len(md_files)
        /\ \A k \in 1..Len(log) :
            /\ log[k].name = md_files[k].name
            /\ (log[k].read_ok /\ log[k].embedded > 0 /\ log[k].add = "ok") =>
                /\ Len(log[k].ids) = log[k].embedded
                /\ \A j \in 1..Len(log[k].ids) : log[k].ids[j] \in DOMAIN store

\* an unreadable file came first and the file after it is in the store
C6_Witness ==
    /\ Returned("process_cpr_documents")
    /\ Len(log) = 2
    /\ ~log[1].read_ok
    /\ log[2].add = "ok"
    /\ log[2].ids # << >>
    /\ \A j \in 1..Len(log[2].ids) : log[2].ids[j] \in DOMAIN store

\* what makes a retrieval come back empty
RetrievalFails ==
    \/ embedding_system = "None"
    \/ ~initialized
    \/ ~collection
    \/ DOMAIN store = {}
    \/ ret.query_embedding = NoVector
    \/ ret.query_raised

\* C7: retrieval never raises, and with the system absent or uninitialized, the
\* store empty, the query embedding empty or the store query raising,
\* search_documents returns [] and the context functions return ""
C7_RetrievalFailsClosed ==
    (pc = "returned" /\ ret.op \in RetrievalOps) =>
        /\ ~ret.raised
        /\ RetrievalFails => (ret.results = << >> /\ ret.context = << >>)

\* the store holds records, the query was embedded, and the store query raised
C7_Witness ==
    /\ Returned("get_document_context")
    /\ initialized
    /\ DOMAIN store # {}
    /\ ret.query_embedding # NoVector
    /\ ret.query_raised
    /\ ret.context = << >>

\* the text lengths of the first n results, summed
RECURSIVE TextLengths(_, _)
TextLengths(results, n) ==
    IF n = 0 THEN 0 ELSE TextLengths(results, n - 1) + Len(results[n].text)

\* C8: the bundle is made of a prefix of the (at most 3) search results, each
\* text in full, and the prefix ends at the first result that would overflow
C8_GreedyPrefixPacking ==
    (pc = "returned" /\ ret.op \in ContextOps) =>
        /\ Len(ret.results) <= ContextTopK
        /\ \E n \in 0..Len(ret.results) :
            /\ ret.context = JoinLines([k \in 1..n |-> ContextPart(ret.results[k])])
            /\ TextLengths(ret.results, n) <= ret.max_chars
            /\ n < Len(ret.results) =>
                   TextLengths(ret.results, n) + Len(ret.results[n + 1].text) > ret.max_chars

\* three results; the first is in the bundle, the second overflows, and the
\* third, which would fit, is left out
C8_Witness ==
    /\ Returned("get_document_context")
    /\ Len(ret.results) = 3
    /\ Len(ret.results[1].text) <= ret.max_chars
    /\ Len(ret.results[1].text) + Len(ret.results[2].text) > ret.max_chars
    /\ Len(ret.results[1].text) + Len(ret.results[3].text) <= ret.max_chars
    /\ ret.context = ContextPart(ret.results[1])

\* C9: every record handed to the store has a non-empty embedding, the four lists
\* of a store call have the same length, and no stored record has an empty vector
C9_NoEmptyVectorStored ==
    /\ last_add.called =>
        /\ Len(last_add.embeddings) = Len(last_add.ids)
        /\ Len(last_add.documents) = Len(last_add.ids)
        /\ Len(last_add.metadatas) = Len(last_add.ids)
        /\ \A k \in 1..Len(last_add.embeddings) : last_add.embeddings[k] # NoVector
    /\ \A id \in DOMAIN store : store[id].embedding # NoVector

\* a file of which one chunk came back without an embedding was written
C9_Witness ==
    /\ pc = "loop"
    /\ log # << >>
    /\ log[Len(log)].add = "ok"
    /\ last_add.called
    /\ \E k \in 1..Len(embed_calls) :
        \E j \in 1..Len(embed_calls[k].result) : embed_calls[k].result[j] = NoVector

\* the id of the stored record a search result was made from
ResultId(result) == ChunkId(Stem(result.metadata.filename), result.metadata.chunk_index)

\* every result of search_documents has the score 1 - distance of its record,
\* the scores never increase along the list, and there are at most top_k results
ScoresFollowDistances ==
    Returned("search_documents") =>
        /\ Len(ret.results) <= ret.top_k
        /\ \A k \in 1..Len(ret.results) :
            /\ ResultId(ret.results[k]) \in DOMAIN store
            /\ ret.results[k].relevance_score =
                   1 - Distance(ret.query_embedding, store[ResultId(ret.results[k])].embedding)
            /\ k < Len(ret.results) =>
                   ret.results[k].relevance_score >= ret.results[k + 1].relevance_score

\* C13: every result of search_documents has relevance_score = 1 - distance, the
\* score lies in [0,1], the results come in the store's order (scores never
\* increase along the list) and there are at most top_k of them
C13_ScoresInUnitRange ==
    /\ ScoresFollowDistances
    /\ Returned("search_documents") =>
        \A k \in 1..Len(ret.results) :
            0 <= ret.results[k].relevance_score /\ ret.results[k].relevance_score <= 1

\* the last file gone through reached its store call
LastFileWritten == pc \in {"loop", "returned"} /\ log # << >> /\ log[Len(log)].add # "none"

\* C14: a batch that comes back without embeddings costs the chunks of that batch
\* only: the chunks of the other batches are handed to the store, nothing is
\* raised, and every record has the id <stem>_<k> with k the position of its chunk
\* in the full chunk list of the document, so that the ids of a document are
\* pairwise distinct and are not shifted by a failed batch
C14_IdsKeepChunkPositions ==
    LastFileWritten =>
        LET f == md_files[Len(log)]
            cks == ChunkText(f.content, f.name, chunk_size, chunk_overlap)
            ids == {last_add.ids[k] : k \in 1..Len(last_add.ids)}
        IN  /\ ~ret.raised
            /\ \A k \in 1..Len(last_add.ids) :
                LET idx == last_add.metadatas[k].chunk_index
                IN  /\ idx \in 0..(Len(cks) - 1)
                    /\ last_add.ids[k] = ChunkId(Stem(f.name), idx)
                    /\ last_add.documents[k] = cks[idx + 1].text
                    /\ last_add.metadatas[k].start = cks[idx + 1].start
            /\ \A k1, k2 \in 1..Len(last_add.ids) :
                k1 # k2 => last_add.ids[k1] # last_add.ids[k2]
            /\ \A b \in 1..Len(embed_calls) :
                \A j \in 1..Len(embed_calls[b].result) :
                    embed_calls[b].result[j] # NoVector =>
                        ChunkId(Stem(f.name), (b - 1) * batch_size + j - 1) \in ids

\* the first batch of a.md came back empty and the one chunk of its second batch
\* was written as a_2
C14_Witness ==
    /\ LastFileWritten
    /\ log[Len(log)].add = "ok"
    /\ Len(embed_calls) = 2
    /\ embed_calls[1].raised
    /\ embed_calls[1].result = << >>
    /\ last_add.ids = <<ChunkId(<<"a">>, 2)>>
    /\ ChunkId(<<"a">>, 2) \in DOMAIN store

(***************************************************************************)
(* Claims about chunk_text, checked under SpecChunk.                       *)
(***************************************************************************)

\* the configurations shaped like the default one (1000, 200): the overlap is
\* a small part of the chunk size
DefaultLike == 0 < chunk_overlap /\ 2 * chunk_overlap <= chunk_size

\* C2: every emitted chunk records offsets with 0 <= start < end <= len(text)
C2_OffsetsWithinText ==
    DefaultLike =>
        \A i \in 1..Len(chunks) :
            /\ 0 <= chunks[i].start
            /\ chunks[i].start < chunks[i].end
            /\ chunks[i].end <= Len(text)

\* C3: a document with a non-whitespace character and shorter than chunk_size
\* comes back as exactly one chunk, the document trimmed
C3_ShortDocumentOneChunk ==
    (DefaultLike /\ pc_chunk = "return" /\ Strip(text) # << >> /\ Len(text) < chunk_size)
        => (Len(chunks) = 1 /\ chunks[1].text = Strip(text))

\* C10: chunk_text terminates for every chunk_size > 0 and chunk_overlap >= 0: the
\* loop goes round again only with a start that is greater than the current one
C10_LoopStopsWithoutProgress ==
    [][(pc_chunk = "while" /\ pc_chunk' = "while") => start' > start]_vars

\* chunk c holds offset p of the text: p lies in [c.start, c.end), and c.text is
\* the text between two offsets of that range that have p between them
Holds(c, p) ==
    /\ c.start <= p
    /\ p < c.end
    /\ \E off \in c.start..p :
        /\ p < off + Len(c.text)
        /\ off + Len(c.text) <= Len(text)
        /\ off + Len(c.text) <= c.end
        /\ c.text = SubSeq(text, off + 1, off + Len(c.text))

\* C12: no content is lost: when chunk_text returns, every character of the text
\* that is not whitespace lies in the range of an emitted chunk and is in that
\* chunk's text; and the start offsets of the emitted chunks never decrease
C12_NoContentLost ==
    DefaultLike =>
        /\ \A i \in 1..(Len(chunks) - 1) : chunks[i].start <= chunks[i + 1].start
        /\ pc_chunk = "return" =>
            \A p \in 0..(Len(text) - 1) :
                text[p + 1] # " " => \E i \in 1..Len(chunks) : Holds(chunks[i], p)

\* chunk_text returned several chunks, one cut short at a sentence end and one
\* shortened by strip()
C12_Witness ==
    /\ DefaultLike
    /\ pc_chunk = "return"
    /\ Len(chunks) >= 2
    /\ \E i \in 1..Len(chunks) :
        chunks[i].end < Len(text) /\ chunks[i].end - chunks[i].start < chunk_size
    /\ \E i \in 1..Len(chunks) :
        Len(chunks[i].text) < PyIndex(chunks[i].end, Len(text)) - chunks[i].start
    /\ \A p \in 0..(Len(text) - 1) :
        text[p + 1] # " " => \E i \in 1..Len(chunks) : Holds(chunks[i], p)

\* C15: of the chunks chunk_text returns, every one but possibly the last starts
\* exactly chunk_overlap characters before the recorded end of the one before it
C15_ConsecutiveChunksOverlap ==
    (DefaultLike /\ pc_chunk = "return") =>
        \A i \in 1..(Len(chunks) - 2) :
            chunks[i + 1].start = chunks[i].end - chunk_overlap

\* the characters of the text at the offsets from..(to - 1) are all blanks
AllBlank(from, to) ==
    \A p \in from..(to - 1) : (0 <= p /\ p < Len(text)) => text[p + 1] = " "

\* C15 as amended: each emitted chunk starts chunk_overlap characters before the
\* recorded end of the one before it, unless windows between the two were dropped
\* as whitespace only: then it starts later, and the text from that offset to
\* chunk_overlap characters past its start is whitespace.  Starts never decrease.
C15_OverlapUnlessWindowDropped ==
    DefaultLike =>
        \A i \in 1..(Len(chunks) - 1) :
            /\ chunks[i].start <= chunks[i + 1].start
            /\ \/ chunks[i + 1].start = chunks[i].end - chunk_overlap
               \/ /\ chunks[i + 1].start > chunks[i].end - chunk_overlap
                  /\ AllBlank(chunks[i].end - chunk_overlap,
                              chunks[i + 1].start + chunk_overlap)

\* chunk_text returned at least three chunks; one pair overlaps by chunk_overlap
\* and another, not the last, has a dropped window between its two chunks
C15_Witness ==
    /\ DefaultLike
    /\ pc_chunk = "return"
    /\ Len(chunks) >= 3
    /\ \E i \in 1..(Len(chunks) - 1) :
        chunks[i + 1].start = chunks[i].end - chunk_overlap
    /\ \E i \in 1..(Len(chunks) - 2) :
        chunks[i + 1].start > chunks[i].end - chunk_overlap

\* the offsets of the full stops in the window that starts at start
WindowDots == {p \in start..(start + chunk_size - 1) : p < Len(text) /\ text[p + 1] = "."}

\* C16: a window whose tentative end start + chunk_size lies before the end of the
\* text ends at p + 1, p the offset of its last full stop, exactly when
\* p > start + 0.7 * chunk_size, and at start + chunk_size otherwise; so it spans
\* more than 0.7 * chunk_size and at most chunk_size characters
C16_SnapOnlyPastSeventyPercent ==
    [][(DefaultLike /\ pc_chunk = "while" /\ start < Len(text)
            /\ start + chunk_size < Len(text)) =>
         LET en == start' + chunk_overlap
         IN  /\ WindowDots = {} => en = start + chunk_size
             /\ \A p \in WindowDots :
                 (\A q \in WindowDots : q <= p) =>
                     en = IF 10 * (p - start) > 7 * chunk_size
                          THEN p + 1 ELSE start + chunk_size
             /\ 10 * (en - start) > 7 * chunk_size
             /\ en - start <= chunk_size
             /\ chunks' # chunks =>
                 /\ chunks'[Len(chunks')].start = start
                 /\ chunks'[Len(chunks')].end = en]_vars

\* a chunk that ends before the end of the text, just after a full stop, and is
\* shorter than chunk_size
C16_Witness ==
    /\ DefaultLike
    /\ \E i \in 1..Len(chunks) :
        /\ chunks[i].end < Len(text)
        /\ chunks[i].end - chunks[i].start < chunk_size
        /\ text[chunks[i].end] = "."
        /\ 10 * (chunks[i].end - 1 - chunks[i].start) > 7 * chunk_size

(***************************************************************************)
(* Claims about the ingestion of rule.md, checked under SpecRule.          *)
(***************************************************************************)
RuleId(k) == ChunkId(<<"r", "u", "l", "e">>, k)

\* the first run over rule.md has returned, and its one store write went through
RuleIngested ==
    /\ Returned("process_cpr_documents")
    /\ runs = 1
    /\ Len(log) = 1
    /\ log[1].add = "ok"
    /\ \A k \in 1..Len(embed_calls) : ~embed_calls[k].raised

\* C11: ingesting the 2500 characters of rule.md at chunk_size 1000 and
\* chunk_overlap 200, every embedding call succeeding, gives exactly 3 chunks
\* (starts 0, 800, 1600 where the text has no full stop) and leaves the store
\* with exactly the 3 records rule_0, rule_1, rule_2
C11_RuleMakesThreeRecords ==
    RuleIngested =>
        /\ Len(last_add.ids) = 3
        /\ DOMAIN store = {RuleId(0), RuleId(1), RuleId(2)}
        /\ (\A p \in 1..Len(corpus[1].content) : corpus[1].content[p] # ".") =>
               [k \in 1..3 |-> last_add.metadatas[k].start] = <<0, 800, 1600>>

====
